---- MODULE Spec2Model ----
(***************************************************************************)
(* TTFL_Helper: fantasy score, retry wrapper, season snapshot cache,       *)
(* history cache and the eligibility command, as state machines.           *)
(* Times are in tenths of a second (0.6 s = 6, 2.0 s = 20).                *)
(***************************************************************************)
EXTENDS Integers, Sequences, FiniteSets, TLC

VARIABLES
    \* ---- compute_ttfl_score (fetch_players_stats.py) ----
    rawRow,      \* the game row handed to compute_ttfl_score, as received
    dfRow,       \* the row's counter columns as the DataFrame holds them now
    ttflScore,   \* the TTFL_SCORE cell of the row (absent before the first call)
    prevScore,   \* the TTFL_SCORE cell before the latest call
    nApplied,    \* how many times compute_ttfl_score ran on the row
    \* ---- _call_with_retries (top_ttfl_excluding_history.py) ----
    rPc,         \* "idle", "loop", "returned" or "raised"
    retries,     \* the retries argument
    base_delay,  \* the base_delay argument
    attempt,     \* the loop variable of range(retries)
    last_exc,    \* the last exception caught ("None" before any)
    rTrace,      \* what the wrapper did so far: calls of fn and sleeps, in order
    rResult,     \* the value returned to the caller
    rRaised,     \* the exception raised to the caller
    \* ---- get_players_stats, get_players_from_season (fetch_players_stats.py) ----
    rosterCache, \* cache/players/players.csv
    snapCache,   \* cache/players/players_games_<season>_<date>.csv, by file name
    gpPc,        \* "idle", "loop" or "done"
    gpArgs,      \* season, cache_date and force_refresh of the call in progress
    players_df,  \* the roster the call works with (PERSON_ID of its rows)
    players_ids, \* players_df["PERSON_ID"].unique(), in order
    gpIdx,       \* position of the for loop in players_ids
    all_games,   \* the players whose game log was appended to all_games
    errorLog,    \* the players whose fetch printed [ERROR]
    upTrace,     \* upstream calls and sleeps of the call in progress, in order
    gpWrites,    \* cache files written by the call in progress
    gpResult,    \* what the call returned
    snapAtCall,  \* snapCache as it was when the call started
    nCalls,      \* calls of get_players_stats so far
    \* ---- get_ttfl_history (ttfl_history.py) ----
    histCache,   \* cache/ttfl/ttfl_history_<date>.csv, by date
    histAtCall,  \* histCache as it was when the latest call started
    hCall,       \* the latest call: its arguments, how it ended, what it returned
    \* ---- main (top_ttfl_excluding_history.py) ----
    df,          \* the snapshot loaded at line 85, one row per player
    dates,       \* the target dates, in order
    lookback,    \* args.lookback
    mPc,         \* "loop", "done" (main returned) or "crashed" (main raised)
    dateIdx,     \* position of the for loop in dates
    mPauses,     \* politeness pauses taken after a scoreboard call
    dayResult,   \* what the latest processed date gave
    \* ---- fetch_players_ttfl, top_players_by_ttfl (top_ttfl.py) ----
    rkPc,        \* "ready" before the ranking is computed, "done" after
    rkDf,        \* the frame get_players_stats returned to fetch_players_ttfl
    rkArgs,      \* top_n, last_x and min_games
    rkTable,     \* the merged table `out` of line 60, before the min_games filter
    rkLast,      \* last_games of the loop of lines 46-54, by player
    rkOut        \* the rows returned, in order

scoreVars == <<rawRow, dfRow, ttflScore, prevScore, nApplied>>
retryVars == <<rPc, retries, base_delay, attempt, last_exc, rTrace, rResult, rRaised>>
snapVars == <<rosterCache, snapCache, gpPc, gpArgs, players_df, players_ids, gpIdx, all_games,
              errorLog, upTrace, gpWrites, gpResult, snapAtCall, nCalls>>
histVars == <<histCache, histAtCall, hCall>>
mainVars == <<df, dates, lookback, mPc, dateIdx, mPauses, dayResult>>

rankVars == <<rkPc, rkDf, rkArgs, rkTable, rkLast, rkOut>>

vars == <<scoreVars, retryVars, snapVars, histVars, mainVars, rankVars>>

----------------------------------------------------------------------------
(* Bounds *)

\* how many counters of a row differ from the reference box score
MaxDirty == 2
\* how many times compute_ttfl_score is applied to one row
MaxApply == 2
\* the largest retries argument given to _call_with_retries
MaxRetries == 5
\* player ids of the upstream roster: 1..MaxPlayers
MaxPlayers == 2
\* cache dates of season snapshots: 1..MaxDates
MaxDates == 1
\* calls of get_players_stats in one run
MaxCalls == 2
\* cache dates of history artifacts: 1..MaxHistDates
MaxHistDates == 2
\* rows of a history table
MaxHistRecords == 1
\* target dates of one run of the command
MaxBatch == 2
\* the largest --lookback
MaxLookback == 1
\* rows of the frame handed to top_players_by_ttfl
MaxRows == 3
\* the largest top_n
MaxTop == 2
\* the largest last_x
MaxLastX == 2
\* the largest min_games
MaxMinGames == 2

----------------------------------------------------------------------------
(* Cells of a DataFrame *)

Absent == [kind |-> "absent", v |-> 0]     \* the column is not in the frame
NaN == [kind |-> "nan", v |-> 0]           \* null
Text == [kind |-> "text", v |-> 0]         \* a string that is no number
Num(n) == [kind |-> "num", v |-> n]        \* a number
NumText(n) == [kind |-> "numtext", v |-> n] \* a string spelling the number n

\* pd.to_numeric(x, errors="coerce")
to_numeric(x) ==
    CASE x.kind = "num" -> x
      [] x.kind = "numtext" -> Num(x.v)
      [] OTHER -> NaN

\* Series.fillna(0)
fillna0(x) == IF x.kind = "nan" THEN Num(0) ELSE x

----------------------------------------------------------------------------
(* compute_ttfl_score *)

cols == {"PTS", "REB", "AST", "STL", "BLK", "FGM", "FGA", "FG3M", "FG3A", "FTM", "FTA", "TOV"}

\* lines 29-31: a column that is not in the frame is created holding 0
AddMissingCols(row) == [c \in cols |-> IF row[c].kind = "absent" THEN Num(0) ELSE row[c]]

\* lines 33-34
CoerceCols(row) == [c \in cols |-> fillna0(to_numeric(row[c]))]

\* a slip of sign: the misses and turnovers are added
ScoreFormula_AddsMisses(frame) ==
    frame["PTS"].v + frame["REB"].v + frame["AST"].v + frame["STL"].v + frame["BLK"].v
    + frame["FGM"].v + frame["FG3M"].v + frame["FTM"].v
    + (frame["TOV"].v + (frame["FGA"].v - frame["FGM"].v) + (frame["FG3A"].v - frame["FG3M"].v)
       + (frame["FTA"].v - frame["FTM"].v))

\* lines 36-44, on a row whose counters are numbers
ScoreFormula(frame) ==
    LET shots_missed == frame["FGA"].v - frame["FGM"].v
        threes_missed == frame["FG3A"].v - frame["FG3M"].v
        ft_missed == frame["FTA"].v - frame["FTM"].v
    IN  frame["PTS"].v + frame["REB"].v + frame["AST"].v + frame["STL"].v + frame["BLK"].v
        + frame["FGM"].v + frame["FG3M"].v + frame["FTM"].v
        - (frame["TOV"].v + shots_missed + threes_missed + ft_missed)

\* the whole function: the frame's counters after the call, and TTFL_SCORE
compute_ttfl_score(row) ==
    LET frame == CoerceCols(AddMissingCols(row))
    IN  [row |-> frame, score |-> Num(ScoreFormula(frame))]

\* the box score of the worked example: 30, 10, 5, 2, 1, 12/20, 3/8, 3/4, 4
ExampleRow ==
    [c \in cols |->
        CASE c = "PTS" -> Num(30) [] c = "REB" -> Num(10) [] c = "AST" -> Num(5)
          [] c = "STL" -> Num(2) [] c = "BLK" -> Num(1)
          [] c = "FGM" -> Num(12) [] c = "FGA" -> Num(20)
          [] c = "FG3M" -> Num(3) [] c = "FG3A" -> Num(8)
          [] c = "FTM" -> Num(3) [] c = "FTA" -> Num(4)
          [] OTHER -> Num(4)]

\* what one counter may hold when the upstream schema drifts
DirtyCells == {Absent, NaN, Text, Num(0), Num(1), NumText(7)}

\* a game row: the example with the counters of S replaced by the cells f gives
GameRow(S, f) == [c \in cols |-> IF c \in S THEN f[c] ELSE ExampleRow[c]]

\* the sets of counters that may be replaced: at most MaxDirty of them
DirtySets == {T \in SUBSET cols : Cardinality(T) <= MaxDirty}

ComputeTtflScore ==
    /\ nApplied < MaxApply
    /\ LET r == compute_ttfl_score(dfRow)
       IN  /\ dfRow' = r.row
           /\ ttflScore' = r.score
    /\ prevScore' = ttflScore
    /\ nApplied' = nApplied + 1
    /\ UNCHANGED rawRow
    /\ UNCHANGED <<retryVars, snapVars, histVars, mainVars, rankVars>>

----------------------------------------------------------------------------
(* Strings, as far as strip(), lower() and upper() tell them apart *)

Str(txt, case, pad) == [txt |-> txt, case |-> case, pad |-> pad]
NaNStr == [txt |-> "", case |-> "nan", pad |-> FALSE]   \* a null where a string is expected

strip(s) == [s EXCEPT !.pad = FALSE]
lower(s) == [s EXCEPT !.case = "lower"]
upper(s) == [s EXCEPT !.case = "upper"]

----------------------------------------------------------------------------
(* The daily schedule (ScoreboardV2) as the command sees it *)

\* TEAM_ID of each franchise
TeamIdOf(abbr) == CASE abbr = "BOS" -> 38 [] abbr = "LAL" -> 47 [] OTHER -> 52

Games == {<<"BOS", "NYK">>, <<"BOS", "LAL">>}

Table(columns, rows) == [cols |-> columns, rows |-> rows]

\* GameHeader of ScoreboardV2: team ids only
GameHeader(g) ==
    Table({"GAME_ID", "HOME_TEAM_ID", "VISITOR_TEAM_ID"},
          <<[c \in {"GAME_ID", "HOME_TEAM_ID", "VISITOR_TEAM_ID"} |->
               CASE c = "HOME_TEAM_ID" -> Num(TeamIdOf(g[1]))
                 [] c = "VISITOR_TEAM_ID" -> Num(TeamIdOf(g[2]))
                 [] OTHER -> Num(1)]>>)

\* LineScore of ScoreboardV2: one row per team
LineScore(g) ==
    Table({"TEAM_ID", "TEAM_ABBREVIATION"},
          <<[c \in {"TEAM_ID", "TEAM_ABBREVIATION"} |->
               IF c = "TEAM_ID" THEN Num(TeamIdOf(g[1])) ELSE Str(g[1], "upper", FALSE)],
            [c \in {"TEAM_ID", "TEAM_ABBREVIATION"} |->
               IF c = "TEAM_ID" THEN Num(TeamIdOf(g[2])) ELSE Str(g[2], "upper", FALSE)]>>)

\* a header that names the teams by abbreviation, padded and in lower case
AbbrHeader(g, a, b) ==
    Table({a, b},
          <<[c \in {a, b} |-> IF c = a THEN Str(g[1], "lower", TRUE) ELSE Str(g[2], "upper", FALSE)]>>)

\* a header whose visitor id is null
HalfHeader(g) ==
    Table({"HOME_TEAM_ID", "AWAY_TEAM_ID"},
          <<[c \in {"HOME_TEAM_ID", "AWAY_TEAM_ID"} |->
               IF c = "HOME_TEAM_ID" THEN Num(TeamIdOf(g[1])) ELSE NaN]>>)

EmptyTable(columns) == Table(columns, <<>>)

Response(name, tables) == [name |-> name, tables |-> tables]

\* what ScoreboardV2(...).get_data_frames() may hold
Responses ==
    UNION {{Response("v2", <<GameHeader(g), LineScore(g)>>),
            Response("ids_only", <<GameHeader(g)>>),
            Response("half_ids", <<HalfHeader(g)>>),
            Response("abbr_pair",
                     <<AbbrHeader(g, "HOME_TEAM_ABBREVIATION", "VISITOR_TEAM_ABBREVIATION")>>),
            Response("abbr_pair_then_line",
                     <<AbbrHeader(g, "TEAM_ABBREVIATION_HOME", "TEAM_ABBREVIATION_AWAY"),
                       LineScore(<<"LAL", "NYK">>)>>)} : g \in Games}
    \cup {Response("two_headers",
                   <<AbbrHeader(<<"BOS", "NYK">>, "HOME_TEAM_ABBREVIATION", "VISITOR_TEAM_ABBREVIATION"),
                     AbbrHeader(<<"LAL", "NYK">>, "TEAM_ABBREVIATION_HOME", "TEAM_ABBREVIATION_AWAY")>>),
           Response("line_then_header",
                   <<LineScore(<<"BOS", "NYK">>),
                     AbbrHeader(<<"LAL", "NYK">>, "HOME_TEAM_ABBREVIATION", "AWAY_TEAM_ABBREVIATION")>>)}
    \cup {Response("no_games",
                   <<EmptyTable({"GAME_ID", "HOME_TEAM_ID", "VISITOR_TEAM_ID"}),
                     EmptyTable({"TEAM_ID", "TEAM_ABBREVIATION"})>>)}

NoResponse == Response("", <<>>)

----------------------------------------------------------------------------
(* _call_with_retries *)

\* the defaults of _call_with_retries, and the pause after a schedule call
DefaultRetries == 5
DefaultBaseDelay == 20
PolitenessPause == 6

\* failures of an upstream call that `except Exception` catches
Excs == {"ReadTimeout", "ConnectionError"}

\* a backoff that grows by one base delay per attempt instead of doubling
Pow2_Linear(n) == n + 1

RECURSIVE Pow2(_)
Pow2(n) == IF n = 0 THEN 1 ELSE 2 * Pow2(n - 1)

CallEv(name) == [ev |-> "call", what |-> name, delay |-> 0]
FailEv(e) == [ev |-> "fail", what |-> e, delay |-> 0]
SleepEv(d) == [ev |-> "sleep", what |-> "", delay |-> d]

\* lines 105-106: entry, last_exc = None
CallWithRetries(r, b) ==
    /\ rPc = "idle"
    /\ rPc' = "loop"
    /\ retries' = r
    /\ base_delay' = b
    /\ attempt' = 0
    /\ last_exc' = "None"
    /\ rTrace' = <<>>
    /\ rResult' = NoResponse
    /\ rRaised' = "None"

\* a wrapper that keeps the first failure instead of the latest
KeptException_First(e) == IF last_exc = "None" THEN e ELSE last_exc

\* line 111: last_exc = e
KeptException(e) == e

\* lines 107-109: one pass of the loop in which fn() returns
RetryCallSucceeds(resp) ==
    /\ rPc = "loop"
    /\ attempt < retries
    /\ rTrace' = Append(rTrace, CallEv(resp.name))
    /\ rResult' = resp
    /\ rPc' = "returned"
    /\ UNCHANGED <<retries, base_delay, attempt, last_exc, rRaised>>

\* lines 107-113: one pass of the loop in which fn() fails
RetryCallFails(e) ==
    /\ rPc = "loop"
    /\ attempt < retries
    /\ last_exc' = KeptException(e)
    /\ rTrace' = rTrace \o <<FailEv(e), SleepEv(base_delay * Pow2(attempt))>>
    /\ attempt' = attempt + 1
    /\ UNCHANGED <<rPc, retries, base_delay, rResult, rRaised>>

\* line 114: raise last_exc (raising None is a TypeError)
RetryExhausted ==
    /\ rPc = "loop"
    /\ attempt >= retries
    /\ rRaised' = IF last_exc = "None" THEN "TypeError" ELSE last_exc
    /\ rPc' = "raised"
    /\ UNCHANGED <<retries, base_delay, attempt, last_exc, rTrace, rResult>>


NextRetry ==
    \/ \E r \in 0..MaxRetries, b \in {DefaultBaseDelay, 10} :
          CallWithRetries(r, b) /\ UNCHANGED <<scoreVars, snapVars, histVars, mainVars, rankVars>>
    \/ \E resp \in Responses : RetryCallSucceeds(resp) /\ UNCHANGED <<scoreVars, snapVars, histVars, mainVars, rankVars>>
    \/ \E e \in Excs : RetryCallFails(e) /\ UNCHANGED <<scoreVars, snapVars, histVars, mainVars, rankVars>>
    \/ RetryExhausted /\ UNCHANGED <<scoreVars, snapVars, histVars, mainVars, rankVars>>

----------------------------------------------------------------------------
(* get_players_from_season and get_players_stats *)

SEASON == "2025-26"
Seasons == {SEASON, "2024-25"}
Pids == 1..MaxPlayers
CacheDates == 1..MaxDates

\* season.replace('-', '')
StripDash(season) == IF season = "2025-26" THEN "202526" ELSE "202425"

\* line 101: the snapshot's file name
cache_filename(season, cache_date) == <<StripDash(season), cache_date>>

SnapFiles == {cache_filename(s, d) : s \in Seasons, d \in CacheDates}

NoFile == [present |-> FALSE, rows |-> {}]
File(rows) == [present |-> TRUE, rows |-> rows]

\* CommonAllPlayers: every player with its GAMES_PLAYED_FLAG
RosterResponses == [Pids -> {"Y", "N"}]

\* line 69: the rows whose GAMES_PLAYED_FLAG is "Y"
ActivePlayers(resp) == {p \in Pids : resp[p] = "Y"}

\* Series.unique() of the PERSON_ID column, whose values are distinct: the ids in row order
RECURSIVE unique(_)
unique(ids) ==
    IF ids = {} THEN <<>>
    ELSE LET m == CHOOSE x \in ids : \A y \in ids : x <= y
         IN  <<m>> \o unique(ids \ {m})

RosterEv == [ev |-> "roster", pid |-> 0, what |-> "", delay |-> 0]
GameLogEv(p, outcome) == [ev |-> "gamelog", pid |-> p, what |-> outcome, delay |-> 0]
PauseEv(d) == [ev |-> "sleep", pid |-> 0, what |-> "", delay |-> d]

\* a row of the roster alone: no game columns, no TTFL_SCORE
PlayerRow(p) == [PERSON_ID |-> p, GAME_DATE |-> Absent, TTFL_SCORE |-> Absent]

\* lines 137-144: a row of the left join, scored. A player without games keeps one
\* row whose game fields are null.
MergedRow(p, hasGames) ==
    [PERSON_ID |-> p,
     GAME_DATE |-> IF hasGames THEN Num(1) ELSE NaN,
     TTFL_SCORE |-> compute_ttfl_score(IF hasGames THEN ExampleRow ELSE [c \in cols |-> NaN]).score]

Range(f) == {f[i] : i \in DOMAIN f}

merged_df(players, games) == {MergedRow(p, p \in Range(games)) : p \in players}

NoArgs == [season |-> SEASON, cache_date |-> 0, force_refresh |-> FALSE]
NoResult == [kind |-> "none", rows |-> {}]

\* a cache test that forgets force_refresh
IsSnapshotHit_IgnoresForce(season, cache_date, force_refresh) ==
    snapCache[cache_filename(season, cache_date)].present

\* line 104
IsSnapshotHit(season, cache_date, force_refresh) ==
    snapCache[cache_filename(season, cache_date)].present /\ ~force_refresh

\* lines 98-103: entry of get_players_stats
EnterCall(season, cache_date, force_refresh) ==
    /\ gpPc \in {"idle", "done"}
    /\ nCalls < MaxCalls
    /\ nCalls' = nCalls + 1
    /\ gpArgs' = [season |-> season, cache_date |-> cache_date, force_refresh |-> force_refresh]
    /\ snapAtCall' = snapCache
    /\ all_games' = <<>>
    /\ errorLog' = <<>>

\* lines 104-106: the snapshot is cached and no refresh is forced
GetPlayersStatsCached(season, cache_date, force_refresh) ==
    /\ EnterCall(season, cache_date, force_refresh)
    /\ IsSnapshotHit(season, cache_date, force_refresh)
    /\ gpResult' = [kind |-> "cached", rows |-> snapCache[cache_filename(season, cache_date)].rows]
    /\ gpPc' = "done"
    /\ upTrace' = <<>>
    /\ gpWrites' = {}
    /\ players_df' = {}
    /\ players_ids' = <<>>
    /\ gpIdx' = 0
    /\ UNCHANGED <<rosterCache, snapCache>>

\* lines 108-110 with the roster read from its cache (lines 63-65)
GetPlayersStatsRosterCached(season, cache_date, force_refresh) ==
    /\ EnterCall(season, cache_date, force_refresh)
    /\ ~IsSnapshotHit(season, cache_date, force_refresh)
    /\ rosterCache.present
    /\ players_df' = rosterCache.rows
    /\ players_ids' = unique(rosterCache.rows)
    /\ gpIdx' = 1
    /\ upTrace' = <<>>
    /\ gpWrites' = {}
    /\ gpResult' = NoResult
    /\ gpPc' = "loop"
    /\ UNCHANGED <<rosterCache, snapCache>>

\* lines 108-110 with the roster fetched upstream and cached (lines 67-71)
GetPlayersStatsRosterFetched(season, cache_date, force_refresh, resp) ==
    /\ EnterCall(season, cache_date, force_refresh)
    /\ ~IsSnapshotHit(season, cache_date, force_refresh)
    /\ ~rosterCache.present
    /\ rosterCache' = File(ActivePlayers(resp))
    /\ players_df' = ActivePlayers(resp)
    /\ players_ids' = unique(ActivePlayers(resp))
    /\ gpIdx' = 1
    /\ upTrace' = <<RosterEv>>
    /\ gpWrites' = {<<"players", 0>>}
    /\ gpResult' = NoResult
    /\ gpPc' = "loop"
    /\ UNCHANGED snapCache

\* line 68 raises: the roster call fails and get_players_stats fails with it
GetPlayersStatsRosterFails(season, cache_date, force_refresh, e) ==
    /\ EnterCall(season, cache_date, force_refresh)
    /\ ~IsSnapshotHit(season, cache_date, force_refresh)
    /\ ~rosterCache.present
    /\ players_df' = {}
    /\ players_ids' = <<>>
    /\ gpIdx' = 0
    /\ upTrace' = <<RosterEv>>
    /\ gpWrites' = {}
    /\ gpResult' = [kind |-> e, rows |-> {}]
    /\ gpPc' = "done"
    /\ UNCHANGED <<rosterCache, snapCache>>

\* what PlayerGameLog(...).get_data_frames()[0] may do for one player
FetchOutcomes == {"games", "empty", "fail"}

\* a loop that gives up at the first failure
LoopAdvance_AbortsOnFailure(outcome) ==
    IF outcome = "fail" THEN Len(players_ids) + 1 ELSE gpIdx + 1

\* a loop that fetches a failed player again
LoopAdvance_RetriesFailure(outcome) ==
    IF outcome = "fail" /\ (errorLog = <<>> \/ errorLog[Len(errorLog)] # players_ids[gpIdx])
    THEN gpIdx ELSE gpIdx + 1

\* line 112: whatever the outcome, the for loop moves to the next player
LoopAdvance(outcome) == gpIdx + 1

\* a pause placed inside the try block: skipped when the fetch raises
ThrottleAfter_OnlyOnSuccess(outcome) == IF outcome = "fail" THEN <<>> ELSE <<PauseEv(PolitenessPause)>>

\* line 120: time.sleep(0.6), after the try statement
ThrottleAfter(outcome) == <<PauseEv(PolitenessPause)>>

\* lines 112-120: one pass of the loop
FetchPlayerGameLog(outcome) ==
    /\ gpPc = "loop"
    /\ gpIdx <= Len(players_ids)
    /\ LET pid == players_ids[gpIdx]
       IN  /\ upTrace' = (upTrace \o <<GameLogEv(pid, outcome)>>) \o ThrottleAfter(outcome)
           /\ all_games' = IF outcome = "games" THEN Append(all_games, pid) ELSE all_games
           /\ errorLog' = IF outcome = "fail" THEN Append(errorLog, pid) ELSE errorLog
    /\ gpIdx' = LoopAdvance(outcome)
    /\ UNCHANGED <<rosterCache, snapCache, gpPc, gpArgs, players_df, players_ids, gpWrites,
                   gpResult, snapAtCall, nCalls>>

\* lines 122-151: some game log was collected
FinishWithGames ==
    /\ gpPc = "loop"
    /\ gpIdx > Len(players_ids)
    /\ all_games # <<>>
    /\ LET f == cache_filename(gpArgs.season, gpArgs.cache_date)
           m == merged_df(players_df, all_games)
       IN  /\ snapCache' = [snapCache EXCEPT ![f] = File(m)]
           /\ gpWrites' = gpWrites \cup {f}
           /\ gpResult' = [kind |-> "merged", rows |-> m]
    /\ gpPc' = "done"
    /\ UNCHANGED <<rosterCache, gpArgs, players_df, players_ids, gpIdx, all_games, errorLog,
                   upTrace, snapAtCall, nCalls>>

\* line 153: no game log at all, the roster alone is returned and nothing is cached
FinishWithoutGames ==
    /\ gpPc = "loop"
    /\ gpIdx > Len(players_ids)
    /\ all_games = <<>>
    /\ gpResult' = [kind |-> "players_only", rows |-> {PlayerRow(p) : p \in players_df}]
    /\ gpPc' = "done"
    /\ UNCHANGED <<rosterCache, snapCache, gpArgs, players_df, players_ids, gpIdx, all_games,
                   errorLog, upTrace, gpWrites, snapAtCall, nCalls>>

NextSnapshot ==
    \/ \E s \in Seasons, d \in CacheDates, fr \in BOOLEAN :
          GetPlayersStatsCached(s, d, fr) /\ UNCHANGED <<scoreVars, retryVars, histVars, mainVars, rankVars>>
    \/ \E s \in Seasons, d \in CacheDates, fr \in BOOLEAN :
          GetPlayersStatsRosterCached(s, d, fr) /\ UNCHANGED <<scoreVars, retryVars, histVars, mainVars, rankVars>>
    \/ \E s \in Seasons, d \in CacheDates, fr \in BOOLEAN, resp \in RosterResponses :
          GetPlayersStatsRosterFetched(s, d, fr, resp) /\ UNCHANGED <<scoreVars, retryVars, histVars, mainVars, rankVars>>
    \/ \E s \in Seasons, d \in CacheDates, fr \in BOOLEAN, e \in Excs :
          GetPlayersStatsRosterFails(s, d, fr, e) /\ UNCHANGED <<scoreVars, retryVars, histVars, mainVars, rankVars>>
    \/ \E o \in FetchOutcomes : FetchPlayerGameLog(o) /\ UNCHANGED <<scoreVars, retryVars, histVars, mainVars, rankVars>>
    \/ FinishWithGames /\ UNCHANGED <<scoreVars, retryVars, histVars, mainVars, rankVars>>
    \/ FinishWithoutGames /\ UNCHANGED <<scoreVars, retryVars, histVars, mainVars, rankVars>>

----------------------------------------------------------------------------
(* get_ttfl_history *)

HistDates == 1..MaxHistDates

\* the rows a history page may list: a date (null when it does not parse) and a player name
SelectionRecords ==
    [Date : {NaN} \cup {Num(d) : d \in 1..4},
     Joueur : {Str("a", "upper", TRUE), Str("b", "mixed", FALSE), NaNStr}]

HistTables == {T \in SUBSET SelectionRecords : Cardinality(T) <= MaxHistRecords}

\* the tables parsed from a fetched page: those listing dated selections of day 3
PageTables == {T \in HistTables : \A r \in T : r.Date = Num(3) /\ r.Joueur # NaNStr}

NoHistCall == [cache_date |-> 0, force_refresh |-> FALSE, outcome |-> "none", rows |-> {}]

\* a refresh that leaves the older artifacts in place
RemoveOldCaches_KeepsThem(cache) == cache

\* lines 96-101: every ttfl_history_*.csv is removed
RemoveOldCaches(cache) == [d \in DOMAIN cache |-> NoFile]

\* line 93
IsHistoryHit(cache_date, force_refresh) == histCache[cache_date].present /\ ~force_refresh

\* lines 93-94: the artifact of the date is loaded
GetTtflHistoryCached(cache_date, force_refresh) ==
    /\ IsHistoryHit(cache_date, force_refresh)
    /\ histAtCall' = histCache
    /\ hCall' = [cache_date |-> cache_date, force_refresh |-> force_refresh,
                 outcome |-> "hit", rows |-> histCache[cache_date].rows]
    /\ UNCHANGED histCache

\* lines 96-110: old caches removed, page fetched and parsed, table saved
GetTtflHistoryRefreshed(cache_date, force_refresh, table) ==
    /\ ~IsHistoryHit(cache_date, force_refresh)
    /\ histAtCall' = histCache
    /\ histCache' = [RemoveOldCaches(histCache) EXCEPT ![cache_date] = File(table)]
    /\ hCall' = [cache_date |-> cache_date, force_refresh |-> force_refresh,
                 outcome |-> "refreshed", rows |-> table]

\* lines 96-104: old caches removed, then ttfl_getter.get_history() raises
GetTtflHistoryFetchFails(cache_date, force_refresh, e) ==
    /\ ~IsHistoryHit(cache_date, force_refresh)
    /\ histAtCall' = histCache
    /\ histCache' = RemoveOldCaches(histCache)
    /\ hCall' = [cache_date |-> cache_date, force_refresh |-> force_refresh,
                 outcome |-> e, rows |-> {}]

\* lines 96-106: old caches removed, then the page holds no table #MuTabme
\* (_parse_mu_table_from_html, lines 27-30, raises RuntimeError)
GetTtflHistoryNoTable(cache_date, force_refresh) ==
    /\ ~IsHistoryHit(cache_date, force_refresh)
    /\ histAtCall' = histCache
    /\ histCache' = RemoveOldCaches(histCache)
    /\ hCall' = [cache_date |-> cache_date, force_refresh |-> force_refresh,
                 outcome |-> "RuntimeError", rows |-> {}]

NextHistory ==
    \/ \E d \in HistDates, fr \in BOOLEAN :
          GetTtflHistoryCached(d, fr) /\ UNCHANGED <<scoreVars, retryVars, snapVars, mainVars, rankVars>>
    \/ \E d \in HistDates, fr \in BOOLEAN, t \in PageTables :
          GetTtflHistoryRefreshed(d, fr, t) /\ UNCHANGED <<scoreVars, retryVars, snapVars, mainVars, rankVars>>
    \/ \E d \in HistDates, fr \in BOOLEAN, e \in Excs :
          GetTtflHistoryFetchFails(d, fr, e) /\ UNCHANGED <<scoreVars, retryVars, snapVars, mainVars, rankVars>>
    \/ \E d \in HistDates, fr \in BOOLEAN :
          GetTtflHistoryNoTable(d, fr) /\ UNCHANGED <<scoreVars, retryVars, snapVars, mainVars, rankVars>>

----------------------------------------------------------------------------
(* top_ttfl: fetch_players_ttfl and top_players_by_ttfl *)

\* the smaller of two numbers
Min(a, b) == IF a <= b THEN a ELSE b

\* GAME_DATE after to_datetime(errors="coerce"), line 23: a day, or NaT
GameDates == {NaN, Num(1), Num(2)}

\* TTFL_SCORE of a game row: a modest game, or the worked example
GameScores == {Num(10), compute_ttfl_score(ExampleRow).score}

\* the rows the snapshot may hold for a player: the row of the left join for a
\* player without game (MergedRow), or rows of games
RowsOfPlayer(p) ==
    {MergedRow(p, FALSE)}
    \cup {[PERSON_ID |-> p, GAME_DATE |-> d, TTFL_SCORE |-> s] : d \in GameDates, s \in GameScores}

AllRows == UNION {RowsOfPlayer(p) : p \in Pids}

RECURSIVE FramesUpTo(_)
FramesUpTo(n) ==
    IF n = 0 THEN {{}}
    ELSE LET S == FramesUpTo(n - 1) IN S \cup {F \cup {r} : F \in S, r \in AllRows}

\* fetch_players_stats.py lines 122-137: a merged frame exists when some game was
\* collected, and the row without game of a player is that player's only row
IsMergedFrame(F) ==
    /\ \E r \in F : r # MergedRow(r.PERSON_ID, FALSE)
    /\ \A r \in F : r = MergedRow(r.PERSON_ID, FALSE) =>
          \A x \in F : x.PERSON_ID = r.PERSON_ID => x = r

\* fetch_players_stats.py line 153: without any game the roster alone is returned
RosterFrames == {{PlayerRow(p) : p \in S} : S \in SUBSET Pids \ {{}}}

NoRankArgs == [top_n |-> 0, last_x |-> 0, min_games |-> 0]

\* lines 17-24: TTFL_SCORE is computed when the column is missing (every counter
\* is then added as 0); GAME_DATE, when the column exists, is coerced to a date
fetch_players_ttfl(frame) ==
    {IF r.TTFL_SCORE = Absent
        THEN [r EXCEPT !.TTFL_SCORE = compute_ttfl_score([c \in cols |-> Absent]).score]
        ELSE r : r \in frame}

PlayersOf(frame) == {r.PERSON_ID : r \in frame}
GamesOf(frame, p) == {r \in frame : r.PERSON_ID = p}

RECURSIVE SumScores(_)
SumScores(rows) ==
    IF rows = {} THEN 0
    ELSE LET r == CHOOSE x \in rows : TRUE
         IN  r.TTFL_SCORE.v + SumScores(rows \ {r})

\* Series.mean(), kept exact as the sum and the count of the non-null scores;
\* the mean is null when n = 0
NoMean == [sum |-> 0, n |-> 0]
MeanOf(rows) ==
    LET v == {r \in rows : r.TTFL_SCORE.kind = "num"}
    IN  [sum |-> SumScores(v), n |-> Cardinality(v)]

IsNull(m) == m.n = 0
MeanGreater(a, b) == a.sum * b.n > b.sum * a.n
MeanEqual(a, b) == a.sum * b.n = b.sum * a.n

\* line 47, sort_values("GAME_DATE"): x comes strictly after y (nulls last)
SortsAfter(x, y) ==
    \/ x.GAME_DATE.kind # "num" /\ y.GAME_DATE.kind = "num"
    \/ x.GAME_DATE.kind = "num" /\ y.GAME_DATE.kind = "num" /\ x.GAME_DATE.v > y.GAME_DATE.v

\* line 48, g_sorted.tail(last_x): the last rows of an ascending order of g; rows
\* of equal date come in an order the sort does not fix
Tails(g, last_x) ==
    {W \in SUBSET g : /\ Cardinality(W) = Min(last_x, Cardinality(g))
                      /\ \A i \in W, j \in g \ W : ~SortsAfter(j, i)}

\* lines 46-54: one last_games per PERSON_ID group
RECURSIVE WindowChoices(_, _, _)
WindowChoices(frame, ps, last_x) ==
    IF ps = {} THEN {<<>>}
    ELSE LET p == CHOOSE x \in ps : TRUE
         IN  {(p :> W) @@ f : W \in Tails(GamesOf(frame, p), last_x),
                              f \in WindowChoices(frame, ps \ {p}, last_x)}

\* line 44
HasDates(frame) == \E r \in frame : r.GAME_DATE.kind = "num"

\* lines 37-41, 49-54, 60: the row of `out` for player p; the LASTX columns are
\* null when lastx_df is the empty frame of line 58
StatsRow(frame, p, lastx, W) ==
    [PERSON_ID |-> p,
     N_GAMES |-> MeanOf(GamesOf(frame, p)).n,
     SEASON_AVG |-> MeanOf(GamesOf(frame, p)),
     LASTX_N |-> IF lastx THEN Num(Cardinality(W)) ELSE NaN,
     LASTX_AVG |-> IF lastx THEN MeanOf(W) ELSE NoMean]

\* a filter that asks for more than min_games games
KeepsPlayer_MoreThan(n_games, min_games) == n_games > min_games

\* line 62
KeepsPlayer(n_games, min_games) == n_games >= min_games

\* line 64: LASTX_AVG.fillna(SEASON_AVG)
SortKey(r) == IF IsNull(r.LASTX_AVG) THEN r.SEASON_AVG ELSE r.LASTX_AVG

\* line 65, sort_values("SORT_KEY", ascending=False): x may not come after y
\* when its key is greater; null keys last
KeyGreater(x, y) ==
    \/ ~IsNull(SortKey(x)) /\ IsNull(SortKey(y))
    \/ ~IsNull(SortKey(x)) /\ ~IsNull(SortKey(y)) /\ MeanGreater(SortKey(x), SortKey(y))

Orders(rows) ==
    {s \in [1..Cardinality(rows) -> rows] :
        /\ \A i, j \in DOMAIN s : i # j => s[i] # s[j]
        /\ \A i, j \in DOMAIN s : i < j => ~KeyGreater(s[j], s[i])}

\* line 66
head(s, n) == SubSeq(s, 1, Min(n, Len(s)))

\* top_ttfl.py __main__ and print_top_players: the frame is fetched (lines 17-24)
\* and ranked (lines 35-66)
TopPlayersByTtfl ==
    /\ rkPc = "ready"
    /\ LET frame == fetch_players_ttfl(rkDf)
           ps == PlayersOf(frame)
           lastx == HasDates(frame)
       IN  \E w \in WindowChoices(frame, ps, rkArgs.last_x) :
              LET out == {StatsRow(frame, p, lastx, w[p]) : p \in ps}
                  kept == {r \in out : KeepsPlayer(r.N_GAMES, rkArgs.min_games)}
              IN  \E s \in Orders(kept) :
                     /\ rkTable' = out
                     /\ rkLast' = IF lastx THEN w ELSE [p \in ps |-> {}]
                     /\ rkOut' = head(s, rkArgs.top_n)
    /\ rkPc' = "done"
    /\ UNCHANGED <<rkDf, rkArgs>>

NextRanking == TopPlayersByTtfl /\ UNCHANGED <<scoreVars, retryVars, snapVars, histVars, mainVars>>

----------------------------------------------------------------------------
(* main of top_ttfl_excluding_history: the loop over the target dates *)

Player(pid, name, team) ==
    [PERSON_ID |-> pid, DISPLAY_FIRST_LAST |-> name, TEAM_ABBREVIATION |-> team,
     TEAM_ID |-> TeamIdOf(team.txt)]

\* the players a snapshot may hold; two of them bear the same name
PlayerPool ==
    {Player(1, Str("a", "mixed", FALSE), Str("BOS", "upper", FALSE)),
     Player(2, Str("b", "mixed", FALSE), Str("LAL", "upper", FALSE)),
     Player(3, Str("a", "mixed", FALSE), Str("LAL", "lower", TRUE))}

Snapshots == SUBSET PlayerPool \ {{}}

\* --start 3 --days n
Batches == {[i \in 1..n |-> 2 + i] : n \in 1..MaxBatch}

\* the history artifacts a run may find: none, or the one the latest refresh left
HistoryCaches ==
    {[d \in HistDates |-> NoFile]}
    \cup {[d \in HistDates |-> IF d = k THEN File(t) ELSE NoFile] : k \in HistDates, t \in HistTables}

\* the history caches get_ttfl_history leaves when the page lists selections of day 3
PageCaches ==
    {[d \in HistDates |-> NoFile]}
    \cup {[d \in HistDates |-> IF d = k THEN File(t) ELSE NoFile] : k \in HistDates, t \in PageTables}

NoDay == [target |-> 0, response |-> "", team_ids |-> {}, team_abbrs |-> {}, players_on_day |-> {},
          exclude_names |-> {}, candidates |-> {}, msg |-> "none"]

\* lines 126-131 and 142-146
possible_id_pairs ==
    {<<"HOME_TEAM_ID", "VISITOR_TEAM_ID">>, <<"TEAM_ID_HOME", "TEAM_ID_AWAY">>,
     <<"TEAM_ID_HOME", "TEAM_ID_VISITOR">>, <<"HOME_TEAM_ID", "AWAY_TEAM_ID">>}
possible_abbr_pairs ==
    {<<"HOME_TEAM_ABBREVIATION", "VISITOR_TEAM_ABBREVIATION">>,
     <<"TEAM_ABBREVIATION_HOME", "TEAM_ABBREVIATION_AWAY">>,
     <<"HOME_TEAM_ABBREVIATION", "AWAY_TEAM_ABBREVIATION">>}

\* "TEAM_ABBREVIATION" in col.upper(), over the column names of the responses
ContainsTeamAbbreviation(col) ==
    col \in {"TEAM_ABBREVIATION", "HOME_TEAM_ABBREVIATION", "VISITOR_TEAM_ABBREVIATION",
             "AWAY_TEAM_ABBREVIATION", "TEAM_ABBREVIATION_HOME", "TEAM_ABBREVIATION_AWAY"}

\* lines 134-139: int() of a null raises, and the rest of the row is skipped
RowIds(row, a, b) ==
    IF row[a].kind # "num" THEN {}
    ELSE IF row[b].kind # "num" THEN {row[a].v}
    ELSE {row[a].v, row[b].v}

\* lines 132-139
TableIds(d) ==
    UNION {UNION {RowIds(d.rows[i], pr[1], pr[2]) : i \in DOMAIN d.rows} :
           pr \in {q \in possible_id_pairs : q[1] \in d.cols /\ q[2] \in d.cols}}

\* d[col].dropna().astype(str).str.strip().str.upper().unique()
ColumnAbbrs(d, col) ==
    {upper(strip(d.rows[i][col])) : i \in {k \in DOMAIN d.rows : d.rows[k][col] # NaNStr}}

\* lines 147-150
PairAbbrs(d) ==
    UNION {ColumnAbbrs(d, pr[1]) \cup ColumnAbbrs(d, pr[2]) :
           pr \in {q \in possible_abbr_pairs : q[1] \in d.cols /\ q[2] \in d.cols}}

\* lines 152-155
AnyAbbrs(d) == UNION {ColumnAbbrs(d, c) : c \in {x \in d.cols : ContainsTeamAbbreviation(x)}}

\* a loop that stops at the first table that names a team
RECURSIVE ScanTables_StopsAtFirst(_, _, _, _)
ScanTables_StopsAtFirst(tables, i, team_ids, team_abbrs) ==
    IF i > Len(tables) \/ team_abbrs # {} THEN [team_ids |-> team_ids, team_abbrs |-> team_abbrs]
    ELSE LET d == tables[i]
             paired == team_abbrs \cup PairAbbrs(d)
         IN  ScanTables_StopsAtFirst(tables, i + 1, team_ids \cup TableIds(d),
                                     IF paired = {} THEN AnyAbbrs(d) ELSE paired)

\* lines 121-155: the loop over the tables of the response
RECURSIVE ScanTables(_, _, _, _)
ScanTables(tables, i, team_ids, team_abbrs) ==
    IF i > Len(tables) THEN [team_ids |-> team_ids, team_abbrs |-> team_abbrs]
    ELSE LET d == tables[i]
             paired == team_abbrs \cup PairAbbrs(d)
         IN  ScanTables(tables, i + 1, team_ids \cup TableIds(d),
                        IF paired = {} THEN AnyAbbrs(d) ELSE paired)

\* lines 157-159: team ids mapped to abbreviations through the snapshot
ResolveTeams(tables, snapshot) ==
    LET scan == ScanTables(tables, 1, {}, {})
    IN  IF scan.team_abbrs = {} /\ scan.team_ids # {}
        THEN [scan EXCEPT !.team_abbrs =
                 {upper(strip(r.TEAM_ABBREVIATION)) : r \in {x \in snapshot : x.TEAM_ID \in scan.team_ids}}]
        ELSE scan

\* line 98: df["_name_norm"]
name_norm(r) == lower(strip(r.DISPLAY_FIRST_LAST))

\* line 163
PlayersOnDay(snapshot, team_abbrs) ==
    {name_norm(r) : r \in {x \in snapshot : upper(strip(x.TEAM_ABBREVIATION)) \in team_abbrs}}

\* lines 34-36: start <= Date <= end; a null date compares false
InWindow(rec, target, lookback_days) ==
    rec.Date.kind = "num" /\ rec.Date.v >= target - lookback_days /\ rec.Date.v <= target

\* lines 16-37: _load_recent_history reads every history artifact on storage
load_recent_history(cache, target, lookback_days) ==
    {rec \in UNION {cache[d].rows : d \in {x \in DOMAIN cache : cache[x].present}} :
        InWindow(rec, target, lookback_days)}

\* lines 174-177
ExcludeNames(recent_hist) == {lower(strip(rec.Joueur)) : rec \in {x \in recent_hist : x.Joueur # NaNStr}}

\* a filter that keeps the excluded names instead of dropping them
Candidates_KeepsExcluded(snapshot, players_on_day, exclude_names) ==
    {r.PERSON_ID : r \in {x \in snapshot : name_norm(x) \in players_on_day /\ name_norm(x) \in exclude_names}}

\* lines 180-182: rows chosen by normalised name, then rows of excluded names dropped
Candidates(snapshot, players_on_day, exclude_names) ==
    {r.PERSON_ID : r \in {x \in snapshot : name_norm(x) \in players_on_day /\ name_norm(x) \notin exclude_names}}

\* failures of the ScoreboardV2 call
ScoreboardExcs == {"ReadTimeout"}

\* _call_with_retries has returned or raised: its frame is gone
RetryFrameDropped ==
    /\ rPc' = "idle"
    /\ retries' = 0
    /\ base_delay' = 0
    /\ attempt' = 0
    /\ last_exc' = "None"
    /\ rTrace' = <<>>
    /\ rResult' = NoResponse
    /\ rRaised' = "None"

\* lines 100-116: a date begins, the scoreboard is asked for through _call_with_retries
MainBeginDate ==
    /\ mPc = "loop"
    /\ dateIdx <= Len(dates)
    /\ CallWithRetries(DefaultRetries, DefaultBaseDelay)
    /\ UNCHANGED mainVars

\* lines 116-171 and 173-189: the scoreboard came back and names some team
MainDateResolved ==
    /\ mPc = "loop"
    /\ rPc = "returned"
    /\ LET target == dates[dateIdx]
           teams == ResolveTeams(rResult.tables, df)
           on_day == PlayersOnDay(df, teams.team_abbrs)
           excl == ExcludeNames(load_recent_history(histCache, target, lookback))
           cands == Candidates(df, on_day, excl)
       IN  /\ teams.team_abbrs # {}
           /\ dayResult' =
                 IF on_day = {}
                 THEN [target |-> target, response |-> rResult.name, team_ids |-> teams.team_ids,
                       team_abbrs |-> teams.team_abbrs, players_on_day |-> {},
                       exclude_names |-> {}, candidates |-> {}, msg |-> "no_game"]
                 ELSE [target |-> target, response |-> rResult.name, team_ids |-> teams.team_ids,
                       team_abbrs |-> teams.team_abbrs, players_on_day |-> on_day,
                       exclude_names |-> excl, candidates |-> cands,
                       msg |-> IF cands = {} THEN "none_left" ELSE "ranked"]
    /\ mPauses' = mPauses + 1
    /\ dateIdx' = dateIdx + 1
    /\ mPc' = IF dateIdx + 1 > Len(dates) THEN "done" ELSE "loop"
    /\ RetryFrameDropped
    /\ UNCHANGED <<df, dates, lookback>>

\* lines 161-168: no team can be named; RuntimeError, wrapped and raised again
MainNoTeams ==
    /\ mPc = "loop"
    /\ rPc = "returned"
    /\ ResolveTeams(rResult.tables, df).team_abbrs = {}
    /\ mPauses' = mPauses + 1
    /\ mPc' = "crashed"
    /\ RetryFrameDropped
    /\ UNCHANGED <<df, dates, lookback, dateIdx, dayResult>>

\* lines 167-168: _call_with_retries raised; RuntimeError raised out of main
MainScheduleFailed ==
    /\ mPc = "loop"
    /\ rPc = "raised"
    /\ mPc' = "crashed"
    /\ RetryFrameDropped
    /\ UNCHANGED <<df, dates, lookback, dateIdx, mPauses, dayResult>>

Next ==
    \/ MainBeginDate /\ UNCHANGED <<scoreVars, snapVars, histVars, rankVars>>
    \/ \E resp \in Responses :
          RetryCallSucceeds(resp) /\ UNCHANGED <<scoreVars, snapVars, histVars, mainVars, rankVars>>
    \/ \E e \in ScoreboardExcs :
          RetryCallFails(e) /\ UNCHANGED <<scoreVars, snapVars, histVars, mainVars, rankVars>>
    \/ RetryExhausted /\ UNCHANGED <<scoreVars, snapVars, histVars, mainVars, rankVars>>
    \/ MainDateResolved /\ UNCHANGED <<scoreVars, snapVars, histVars, rankVars>>
    \/ MainNoTeams /\ UNCHANGED <<scoreVars, snapVars, histVars, rankVars>>
    \/ MainScheduleFailed /\ UNCHANGED <<scoreVars, snapVars, histVars, rankVars>>

----------------------------------------------------------------------------
(* Specifications: one per component, each from the state the program starts in *)

\* a game row reaches compute_ttfl_score
InitScore ==
    /\ \E S \in DirtySets : \E f \in [S -> DirtyCells] : rawRow = GameRow(S, f)
    /\ dfRow = rawRow
    /\ ttflScore = Absent
    /\ prevScore = Absent
    /\ nApplied = 0
    /\ rPc = "idle"
    /\ retries = 0
    /\ base_delay = 0
    /\ attempt = 0
    /\ last_exc = "None"
    /\ rTrace = <<>>
    /\ rResult = NoResponse
    /\ rRaised = "None"
    /\ rosterCache = NoFile
    /\ snapCache = [f \in SnapFiles |-> NoFile]
    /\ gpPc = "idle"
    /\ gpArgs = NoArgs
    /\ players_df = {}
    /\ players_ids = <<>>
    /\ gpIdx = 0
    /\ all_games = <<>>
    /\ errorLog = <<>>
    /\ upTrace = <<>>
    /\ gpWrites = {}
    /\ gpResult = NoResult
    /\ snapAtCall = [f \in SnapFiles |-> NoFile]
    /\ nCalls = 0
    /\ histCache = [d \in HistDates |-> NoFile]
    /\ histAtCall = [d \in HistDates |-> NoFile]
    /\ hCall = NoHistCall
    /\ df = {}
    /\ dates = <<>>
    /\ lookback = 0
    /\ mPc = "off"
    /\ dateIdx = 0
    /\ mPauses = 0
    /\ dayResult = NoDay
    /\ rkPc = "off"
    /\ rkDf = {}
    /\ rkArgs = NoRankArgs
    /\ rkTable = {}
    /\ rkLast = <<>>
    /\ rkOut = <<>>

NextScore == ComputeTtflScore

SpecScore == InitScore /\ [][NextScore]_vars

\* _call_with_retries is about to be called
InitRetry ==
    /\ rawRow = ExampleRow
    /\ dfRow = ExampleRow
    /\ ttflScore = Absent
    /\ prevScore = Absent
    /\ nApplied = 0
    /\ rPc = "idle"
    /\ retries = 0
    /\ base_delay = 0
    /\ attempt = 0
    /\ last_exc = "None"
    /\ rTrace = <<>>
    /\ rResult = NoResponse
    /\ rRaised = "None"
    /\ rosterCache = NoFile
    /\ snapCache = [f \in SnapFiles |-> NoFile]
    /\ gpPc = "idle"
    /\ gpArgs = NoArgs
    /\ players_df = {}
    /\ players_ids = <<>>
    /\ gpIdx = 0
    /\ all_games = <<>>
    /\ errorLog = <<>>
    /\ upTrace = <<>>
    /\ gpWrites = {}
    /\ gpResult = NoResult
    /\ snapAtCall = [f \in SnapFiles |-> NoFile]
    /\ nCalls = 0
    /\ histCache = [d \in HistDates |-> NoFile]
    /\ histAtCall = [d \in HistDates |-> NoFile]
    /\ hCall = NoHistCall
    /\ df = {}
    /\ dates = <<>>
    /\ lookback = 0
    /\ mPc = "off"
    /\ dateIdx = 0
    /\ mPauses = 0
    /\ dayResult = NoDay
    /\ rkPc = "off"
    /\ rkDf = {}
    /\ rkArgs = NoRankArgs
    /\ rkTable = {}
    /\ rkLast = <<>>
    /\ rkOut = <<>>

SpecRetry == InitRetry /\ [][NextRetry]_vars

\* no cache file exists yet
InitSnapshot ==
    /\ rawRow = ExampleRow
    /\ dfRow = ExampleRow
    /\ ttflScore = Absent
    /\ prevScore = Absent
    /\ nApplied = 0
    /\ rPc = "idle"
    /\ retries = 0
    /\ base_delay = 0
    /\ attempt = 0
    /\ last_exc = "None"
    /\ rTrace = <<>>
    /\ rResult = NoResponse
    /\ rRaised = "None"
    /\ rosterCache = NoFile
    /\ snapCache = [f \in SnapFiles |-> NoFile]
    /\ gpPc = "idle"
    /\ gpArgs = NoArgs
    /\ players_df = {}
    /\ players_ids = <<>>
    /\ gpIdx = 0
    /\ all_games = <<>>
    /\ errorLog = <<>>
    /\ upTrace = <<>>
    /\ gpWrites = {}
    /\ gpResult = NoResult
    /\ snapAtCall = [f \in SnapFiles |-> NoFile]
    /\ nCalls = 0
    /\ histCache = [d \in HistDates |-> NoFile]
    /\ histAtCall = [d \in HistDates |-> NoFile]
    /\ hCall = NoHistCall
    /\ df = {}
    /\ dates = <<>>
    /\ lookback = 0
    /\ mPc = "off"
    /\ dateIdx = 0
    /\ mPauses = 0
    /\ dayResult = NoDay
    /\ rkPc = "off"
    /\ rkDf = {}
    /\ rkArgs = NoRankArgs
    /\ rkTable = {}
    /\ rkLast = <<>>
    /\ rkOut = <<>>

SpecSnapshot == InitSnapshot /\ [][NextSnapshot]_vars

\* no history artifact exists yet
InitHistory ==
    /\ rawRow = ExampleRow
    /\ dfRow = ExampleRow
    /\ ttflScore = Absent
    /\ prevScore = Absent
    /\ nApplied = 0
    /\ rPc = "idle"
    /\ retries = 0
    /\ base_delay = 0
    /\ attempt = 0
    /\ last_exc = "None"
    /\ rTrace = <<>>
    /\ rResult = NoResponse
    /\ rRaised = "None"
    /\ rosterCache = NoFile
    /\ snapCache = [f \in SnapFiles |-> NoFile]
    /\ gpPc = "idle"
    /\ gpArgs = NoArgs
    /\ players_df = {}
    /\ players_ids = <<>>
    /\ gpIdx = 0
    /\ all_games = <<>>
    /\ errorLog = <<>>
    /\ upTrace = <<>>
    /\ gpWrites = {}
    /\ gpResult = NoResult
    /\ snapAtCall = [f \in SnapFiles |-> NoFile]
    /\ nCalls = 0
    /\ histCache = [d \in HistDates |-> NoFile]
    /\ histAtCall = [d \in HistDates |-> NoFile]
    /\ hCall = NoHistCall
    /\ df = {}
    /\ dates = <<>>
    /\ lookback = 0
    /\ mPc = "off"
    /\ dateIdx = 0
    /\ mPauses = 0
    /\ dayResult = NoDay
    /\ rkPc = "off"
    /\ rkDf = {}
    /\ rkArgs = NoRankArgs
    /\ rkTable = {}
    /\ rkLast = <<>>
    /\ rkOut = <<>>

SpecHistory == InitHistory /\ [][NextHistory]_vars

\* top_ttfl.py run on a frame get_players_stats may return
InitRanking ==
    /\ rawRow = ExampleRow
    /\ dfRow = ExampleRow
    /\ ttflScore = Absent
    /\ prevScore = Absent
    /\ nApplied = 0
    /\ rPc = "idle"
    /\ retries = 0
    /\ base_delay = 0
    /\ attempt = 0
    /\ last_exc = "None"
    /\ rTrace = <<>>
    /\ rResult = NoResponse
    /\ rRaised = "None"
    /\ rosterCache = NoFile
    /\ snapCache = [f \in SnapFiles |-> NoFile]
    /\ gpPc = "idle"
    /\ gpArgs = NoArgs
    /\ players_df = {}
    /\ players_ids = <<>>
    /\ gpIdx = 0
    /\ all_games = <<>>
    /\ errorLog = <<>>
    /\ upTrace = <<>>
    /\ gpWrites = {}
    /\ gpResult = NoResult
    /\ snapAtCall = [f \in SnapFiles |-> NoFile]
    /\ nCalls = 0
    /\ histCache = [d \in HistDates |-> NoFile]
    /\ histAtCall = [d \in HistDates |-> NoFile]
    /\ hCall = NoHistCall
    /\ df = {}
    /\ dates = <<>>
    /\ lookback = 0
    /\ mPc = "off"
    /\ dateIdx = 0
    /\ mPauses = 0
    /\ dayResult = NoDay
    /\ rkPc = "ready"
    /\ rkDf \in {F \in FramesUpTo(MaxRows) : IsMergedFrame(F)} \cup RosterFrames
    /\ rkArgs \in [top_n : 1..MaxTop, last_x : 0..MaxLastX, min_games : 1..MaxMinGames]
    /\ rkTable = {}
    /\ rkLast = <<>>
    /\ rkOut = <<>>

SpecRanking == InitRanking /\ [][NextRanking]_vars

\* the command has loaded its snapshot and built its list of target dates
Init ==
    /\ rawRow = ExampleRow
    /\ dfRow = ExampleRow
    /\ ttflScore = Absent
    /\ prevScore = Absent
    /\ nApplied = 0
    /\ rPc = "idle"
    /\ retries = 0
    /\ base_delay = 0
    /\ attempt = 0
    /\ last_exc = "None"
    /\ rTrace = <<>>
    /\ rResult = NoResponse
    /\ rRaised = "None"
    /\ rosterCache = NoFile
    /\ snapCache = [f \in SnapFiles |-> NoFile]
    /\ gpPc = "idle"
    /\ gpArgs = NoArgs
    /\ players_df = {}
    /\ players_ids = <<>>
    /\ gpIdx = 0
    /\ all_games = <<>>
    /\ errorLog = <<>>
    /\ upTrace = <<>>
    /\ gpWrites = {}
    /\ gpResult = NoResult
    /\ snapAtCall = [f \in SnapFiles |-> NoFile]
    /\ nCalls = 0
    /\ histCache \in HistoryCaches
    /\ histAtCall = [d \in HistDates |-> NoFile]
    /\ hCall = NoHistCall
    /\ df \in Snapshots
    /\ dates \in Batches
    /\ lookback \in 0..MaxLookback
    /\ mPc = "loop"
    /\ dateIdx = 1
    /\ mPauses = 0
    /\ dayResult = NoDay
    /\ rkPc = "off"
    /\ rkDf = {}
    /\ rkArgs = NoRankArgs
    /\ rkTable = {}
    /\ rkLast = <<>>
    /\ rkOut = <<>>

Spec == Init /\ [][Next]_vars

\* the command run for a single date, --date of day 3
InitDay ==
    /\ rawRow = ExampleRow
    /\ dfRow = ExampleRow
    /\ ttflScore = Absent
    /\ prevScore = Absent
    /\ nApplied = 0
    /\ rPc = "idle"
    /\ retries = 0
    /\ base_delay = 0
    /\ attempt = 0
    /\ last_exc = "None"
    /\ rTrace = <<>>
    /\ rResult = NoResponse
    /\ rRaised = "None"
    /\ rosterCache = NoFile
    /\ snapCache = [f \in SnapFiles |-> NoFile]
    /\ gpPc = "idle"
    /\ gpArgs = NoArgs
    /\ players_df = {}
    /\ players_ids = <<>>
    /\ gpIdx = 0
    /\ all_games = <<>>
    /\ errorLog = <<>>
    /\ upTrace = <<>>
    /\ gpWrites = {}
    /\ gpResult = NoResult
    /\ snapAtCall = [f \in SnapFiles |-> NoFile]
    /\ nCalls = 0
    /\ histCache \in PageCaches
    /\ histAtCall = [d \in HistDates |-> NoFile]
    /\ hCall = NoHistCall
    /\ df \in Snapshots
    /\ dates = <<3>>
    /\ lookback \in 0..MaxLookback
    /\ mPc = "loop"
    /\ dateIdx = 1
    /\ mPauses = 0
    /\ dayResult = NoDay
    /\ rkPc = "off"
    /\ rkDf = {}
    /\ rkArgs = NoRankArgs
    /\ rkTable = {}
    /\ rkLast = <<>>
    /\ rkOut = <<>>

SpecDay == InitDay /\ [][Next]_vars

----------------------------------------------------------------------------
(* Claims *)

\* C1: after compute_ttfl_score the score is PTS+REB+AST+STL+BLK+FGM+FG3M+FTM
\* - (TOV + (FGA-FGM) + (FG3A-FG3M) + (FTA-FTM)) over the counters received,
\* a counter that is missing, null or not a number counting as 0; the call
\* always yields a number; a second call on the same row yields the same score.
CounterValue(c) == IF rawRow[c].kind \in {"num", "numtext"} THEN rawRow[c].v ELSE 0

C1_ScoreFormula ==
    nApplied >= 1 =>
        /\ ttflScore.kind = "num"
        /\ ttflScore.v =
              CounterValue("PTS") + CounterValue("REB") + CounterValue("AST")
              + CounterValue("STL") + CounterValue("BLK") + CounterValue("FGM")
              + CounterValue("FG3M") + CounterValue("FTM")
              - (CounterValue("TOV") + (CounterValue("FGA") - CounterValue("FGM"))
                 + (CounterValue("FG3A") - CounterValue("FG3M"))
                 + (CounterValue("FTA") - CounterValue("FTM")))
        /\ (nApplied >= 2 => ttflScore = prevScore)
        /\ (rawRow = ExampleRow => ttflScore.v = 48)

C1_Witness ==
    /\ nApplied = 2
    /\ rawRow["FGA"] = Text
    /\ rawRow["TOV"] = Absent
    /\ ttflScore = Num(72)

\* the calls of fn recorded in the trace, and the failures among them
FnCalls == SelectSeq(rTrace, LAMBDA x : x.ev \in {"call", "fail"})
FnFailures == SelectSeq(rTrace, LAMBDA x : x.ev = "fail")

\* C2: _call_with_retries calls fn at most `retries` times; it returns the
\* result of the first successful call, which is the last call it makes; when
\* all `retries` calls failed it raises the failure of the last call and
\* returns no value.
C2_RetryContract ==
    /\ Len(FnCalls) <= retries
    /\ rPc = "returned" =>
          /\ rRaised = "None"
          /\ Len(FnCalls) = Len(FnFailures) + 1
          /\ FnCalls[Len(FnCalls)] = CallEv(rResult.name)
          /\ rTrace[Len(rTrace)] = CallEv(rResult.name)
    /\ rPc = "raised" =>
          /\ rResult = NoResponse
          /\ Len(FnCalls) = retries
          /\ Len(FnFailures) = retries
          /\ rRaised # "None"
          /\ retries >= 1 => rRaised = FnFailures[Len(FnFailures)].what

C2_Witness ==
    /\ rPc = "raised"
    /\ retries = DefaultRetries
    /\ rRaised = "ConnectionError"
    /\ FnFailures[1].what = "ReadTimeout"

\* the call in progress, or the latest one, found its snapshot cached and was not forced
HitAtCall ==
    snapAtCall[cache_filename(gpArgs.season, gpArgs.cache_date)].present /\ ~gpArgs.force_refresh

\* C3: when the snapshot of (season, date) is cached and force_refresh is false,
\* get_players_stats returns the cached artifact, calls nothing upstream and
\* writes no cache file, whatever calls came before; it returns from the cache
\* only then (a forced call, or one whose key is absent, takes the fetch path).
C3_CacheHitIsAuthoritative ==
    nCalls >= 1 =>
        /\ HitAtCall =>
              /\ gpPc = "done"
              /\ gpResult = [kind |-> "cached",
                             rows |-> snapAtCall[cache_filename(gpArgs.season, gpArgs.cache_date)].rows]
              /\ upTrace = <<>>
              /\ gpWrites = {}
              /\ snapCache = snapAtCall
        /\ gpResult.kind = "cached" => HitAtCall

C3_Witness ==
    /\ nCalls = 2
    /\ gpResult.kind = "cached"
    /\ gpResult.rows # {}
    /\ gpArgs.season = "2024-25"
    /\ ~snapCache[cache_filename(SEASON, gpArgs.cache_date)].present

GameLogCalls == SelectSeq(upTrace, LAMBDA x : x.ev = "gamelog")
CallsFor(p) == SelectSeq(upTrace, LAMBDA x : x.ev = "gamelog" /\ x.pid = p)
FetchedWithGames == {p \in Pids : \E i \in DOMAIN upTrace : upTrace[i] = GameLogEv(p, "games")}
RowsWithGame(rows) == {r.PERSON_ID : r \in {x \in rows : x.GAME_DATE.kind = "num"}}

\* C4: when get_players_stats has built its result, every player of the roster
\* was fetched, a failed fetch notwithstanding, and the result holds game rows
\* exactly for the players whose fetch returned at least one game.
C4_FailureDoesNotAbort ==
    (gpPc = "done" /\ gpResult.kind \in {"merged", "players_only"}) =>
        /\ {GameLogCalls[i].pid : i \in DOMAIN GameLogCalls} = players_df
        /\ RowsWithGame(gpResult.rows) = FetchedWithGames
        /\ {r.PERSON_ID : r \in gpResult.rows} = players_df
        /\ gpResult.kind = "merged" =>
              snapCache[cache_filename(gpArgs.season, gpArgs.cache_date)] = File(gpResult.rows)

C4_Witness ==
    /\ gpPc = "done"
    /\ players_ids = <<1, 2>>
    /\ errorLog = <<1>>
    /\ RowsWithGame(gpResult.rows) = {2}

C6_PauseAfterEveryFetch ==
    /\ \A i \in DOMAIN upTrace :
          upTrace[i].ev = "gamelog" =>
              /\ i < Len(upTrace)
              /\ upTrace[i + 1] = PauseEv(PolitenessPause)
    /\ gpPc = "loop" =>
          [i \in DOMAIN GameLogCalls |-> GameLogCalls[i].pid] = SubSeq(players_ids, 1, gpIdx - 1)

C6_Witness ==
    \E i \in DOMAIN upTrace :
        /\ upTrace[i] = GameLogEv(1, "fail")
        /\ i + 2 <= Len(upTrace)
        /\ upTrace[i + 2] = GameLogEv(2, "empty")

HistArtifacts == {d \in HistDates : histCache[d].present}

C8_FailedRefreshKeepsCache ==
    hCall.outcome \in (Excs \cup {"RuntimeError"}) => histCache = histAtCall

\* the players the claim expects for the date just processed: those whose team
\* plays, less those named by a selection record dated within the window
ExpectedCandidates ==
    {r.PERSON_ID : r \in {x \in df :
        /\ upper(strip(x.TEAM_ABBREVIATION)) \in dayResult.team_abbrs
        /\ ~\E rec \in UNION {histCache[d].rows : d \in HistDates} :
              /\ rec.Date.kind = "num"
              /\ rec.Date.v >= dayResult.target - lookback
              /\ rec.Date.v <= dayResult.target
              /\ rec.Joueur # NaNStr
              /\ lower(strip(rec.Joueur)) = lower(strip(x.DISPLAY_FIRST_LAST))}}

\* C9: for a processed date the candidates are the players whose team plays that
\* date, less the players whose trimmed, case-folded name is that of a selection
\* record dated within [target - lookback, target], both ends included.
C9_CandidateSet ==
    dayResult.msg # "none" => dayResult.candidates = ExpectedCandidates

\* C10: a schedule failure for one date leaves the later dates of the batch to
\* be processed: the command never stops on a failed date with dates left over.
C10_LaterDatesProcessed ==
    ~(mPc = "crashed" /\ dateIdx < Len(dates))

\* the rows of `out` that pass the min_games filter, and the players returned
Eligible == {r \in rkTable : r.N_GAMES >= rkArgs.min_games}
Returned == {rkOut[i] : i \in DOMAIN rkOut}

LaterGame(x, y) ==
    /\ x.GAME_DATE.kind = "num"
    /\ y.GAME_DATE.kind # "num" \/ x.GAME_DATE.v > y.GAME_DATE.v

\* C12 as stated: the rolling window of a player holds min(last_x, rows of the
\* player) rows, so LASTX_N <= last_x, and no row outside the window is a game of
\* a later date than a row inside it: an undated row is never taken in place of
\* a dated game.
C12_WindowIsMostRecent ==
    (rkPc = "done" /\ HasDates(rkDf)) =>
        \A r \in rkTable :
            LET g == GamesOf(rkDf, r.PERSON_ID)
                W == rkLast[r.PERSON_ID]
            IN  /\ r.LASTX_N = Num(Cardinality(W))
                /\ Cardinality(W) = Min(rkArgs.last_x, Cardinality(g))
                /\ W \subseteq g
                /\ \A i \in W, j \in g \ W : ~LaterGame(j, i)

\* a player without dated game: every row of the player has a null or missing date
NoDatedGame(p) == \A r \in GamesOf(rkDf, p) : r.GAME_DATE.kind # "num"

\* C13 as stated: the sort key is the rolling mean when present and the season
\* mean otherwise; a player without dated game has null rolling stats, and is
\* returned when eligible and within the top_n.
C13_NullRollingStatsWithoutDates ==
    rkPc = "done" =>
        \A r \in rkTable :
            /\ SortKey(r) = (IF IsNull(r.LASTX_AVG) THEN r.SEASON_AVG ELSE r.LASTX_AVG)
            /\ NoDatedGame(r.PERSON_ID) =>
                  /\ IsNull(r.LASTX_AVG)
                  /\ (r \in Eligible /\ Cardinality(Eligible) <= rkArgs.top_n) => r \in Returned

\* C14 as stated: a roster player without game (the row of the left join with
\* null game fields, or a row of the roster alone) has N_GAMES = 0 and, min_games
\* being at least 1, is not returned.
C14_ZeroGamePlayerExcluded ==
    rkPc = "done" =>
        \A x \in rkDf : x \in {MergedRow(x.PERSON_ID, FALSE), PlayerRow(x.PERSON_ID)} =>
            /\ \A r \in rkTable : r.PERSON_ID = x.PERSON_ID => r.N_GAMES = 0
            /\ \A r \in Returned : r.PERSON_ID # x.PERSON_ID

\* the abbreviation pairs, in the order lines 142-146 list them
AbbrShapes ==
    <<<<"HOME_TEAM_ABBREVIATION", "VISITOR_TEAM_ABBREVIATION">>,
      <<"TEAM_ABBREVIATION_HOME", "TEAM_ABBREVIATION_AWAY">>,
      <<"HOME_TEAM_ABBREVIATION", "AWAY_TEAM_ABBREVIATION">>>>

\* the abbreviations one pair of columns gives in table d
ShapeAbbrs(d, pr) ==
    IF pr[1] \in d.cols /\ pr[2] \in d.cols
    THEN ColumnAbbrs(d, pr[1]) \cup ColumnAbbrs(d, pr[2])
    ELSE {}

\* the first table of the response that names a team by abbreviation (0: none)
FirstNaming(tables) ==
    LET I == {i \in DOMAIN tables : AnyAbbrs(tables[i]) # {}}
    IN  IF I = {} THEN 0 ELSE CHOOSE i \in I : \A j \in I : i <= j

\* the data of the first shape that yields any: in the first table that names a
\* team, the first pair that gives abbreviations, or else its abbreviation columns
FirstShapeAbbrs(tables) ==
    LET k == FirstNaming(tables)
    IN  IF k = 0 THEN {}
        ELSE LET S == {n \in DOMAIN AbbrShapes : ShapeAbbrs(tables[k], AbbrShapes[n]) # {}}
             IN  IF S = {} THEN AnyAbbrs(tables[k])
                 ELSE ShapeAbbrs(tables[k], AbbrShapes[CHOOSE n \in S : \A m \in S : n <= m])

\* the data of every pair of the first table that names a team (its abbreviation
\* columns when no pair gives any), with the data of every pair of the later tables
AllShapeAbbrs(tables) ==
    LET k == FirstNaming(tables)
    IN  IF k = 0 THEN {}
        ELSE (IF PairAbbrs(tables[k]) # {} THEN PairAbbrs(tables[k]) ELSE AnyAbbrs(tables[k]))
             \cup UNION {PairAbbrs(tables[j]) : j \in (k + 1)..Len(tables)}

AllTeamIds(tables) == UNION {TableIds(tables[i]) : i \in DOMAIN tables}

\* the abbreviations the snapshot gives for the team ids of the response
IdsToAbbrs(tables, snapshot) ==
    {upper(strip(r.TEAM_ABBREVIATION)) : r \in {x \in snapshot : x.TEAM_ID \in AllTeamIds(tables)}}

\* C15 as stated: the teams resolved for a date are the data of the first shape
\* that yields any, and nothing of a later shape; team ids are mapped through the
\* snapshot only when no shape gave an abbreviation.
C15_FirstShapeOnly ==
    [][dateIdx' = dateIdx + 1 =>
          dayResult'.team_abbrs = (IF FirstShapeAbbrs(rResult.tables) # {}
                                      THEN FirstShapeAbbrs(rResult.tables)
                                      ELSE IdsToAbbrs(rResult.tables, df))]_vars

\* C15 amended: team resolution scans every table of the response and
\* accumulates: every id pair present adds its ids, every abbreviation pair
\* present adds its abbreviations, in every table; the abbreviation columns of a
\* table are read only while no abbreviation has been found; team ids are mapped
\* through the snapshot only when the scan found no abbreviation, and the date
\* fails only when neither gives a team.
C15_ShapesAccumulate ==
    [][/\ dateIdx' = dateIdx + 1 =>
             /\ dayResult'.team_ids = AllTeamIds(rResult.tables)
             /\ dayResult'.team_abbrs = (IF AllShapeAbbrs(rResult.tables) # {}
                                            THEN AllShapeAbbrs(rResult.tables)
                                            ELSE IdsToAbbrs(rResult.tables, df))
       /\ (rPc = "returned" /\ mPc' = "crashed") =>
             /\ AllShapeAbbrs(rResult.tables) = {}
             /\ IdsToAbbrs(rResult.tables, df) = {}]_vars

\* a response whose two tables each carry a pair of abbreviations: three teams
C15_Witness ==
    /\ dayResult.response = "two_headers"
    /\ Cardinality(dayResult.team_abbrs) = 3
    /\ dayResult.candidates # {}

RECURSIVE TotalDelay(_)
TotalDelay(trace) ==
    IF trace = <<>> THEN 0 ELSE Head(trace).delay + TotalDelay(Tail(trace))

\* how many attempts failed before position k of the trace
FailuresBefore(k) == Cardinality({j \in 1..(k - 1) : rTrace[j].ev = "fail"})

\* C16: in _call_with_retries the i-th failed attempt (i from 0) is followed at
\* once by a wait of base_delay * 2^i, the last attempt included, and nothing
\* else is waited: with the defaults an exhausted call has waited 2+4+8+16+32
\* seconds when it raises; a successful attempt ends the call without a wait;
\* the 0.6 pause of main is taken once after each schedule call that returned,
\* and never after one that raised.
C16_BackoffTiming ==
    /\ [](/\ \A k \in DOMAIN rTrace :
                /\ rTrace[k].ev = "fail" =>
                      /\ k + 1 <= Len(rTrace)
                      /\ rTrace[k + 1] = SleepEv(base_delay * 2^FailuresBefore(k))
                /\ rTrace[k].ev = "sleep" => k > 1 /\ rTrace[k - 1].ev = "fail"
                /\ rTrace[k].ev = "call" => k = Len(rTrace)
          /\ (rPc = "raised" /\ retries = 5 /\ base_delay = 20) =>
                TotalDelay(rTrace) = 20 + 40 + 80 + 160 + 320)
    /\ [][/\ mPauses' # mPauses => rPc = "returned" /\ mPauses' = mPauses + 1
          /\ (rPc = "returned" /\ rPc' = "idle") => mPauses' = mPauses + 1]_vars

C16_Witness ==
    /\ rPc = "raised"
    /\ Len(FnFailures) = DefaultRetries
    /\ rTrace[Len(rTrace)] = SleepEv(320)
    /\ mPauses = 0

\* the players of the snapshot whose team plays on the date just processed
PlayersOfTeams ==
    {r.PERSON_ID : r \in {x \in df : upper(strip(x.TEAM_ABBREVIATION)) \in dayResult.team_abbrs}}

\* C17: the eligibility command never calls get_ttfl_history: no history
\* artifact is fetched, removed or written while it runs; and when no artifact
\* exists, no name is excluded, every player whose team plays on the date is a
\* candidate and the date is ranked without error.
C17_HistoryOnlyRead ==
    /\ [][histCache' = histCache /\ histAtCall' = histAtCall /\ hCall' = hCall]_vars
    /\ []((dayResult.msg \notin {"none", "no_game"} /\ \A d \in HistDates : ~histCache[d].present) =>
             /\ dayResult.exclude_names = {}
             /\ PlayersOfTeams # {}
             /\ PlayersOfTeams \subseteq dayResult.candidates
             /\ dayResult.msg = "ranked"
             /\ mPc = "done")

C17_Witness ==
    /\ dayResult.msg = "ranked"
    /\ \A d \in HistDates : ~histCache[d].present
    /\ Cardinality(dayResult.candidates) >= 2


====
